---- MODULE Spec2Model ----
(***************************************************************************)
(* Model of the IOx catalog Partition (server/src/db/catalog/partition.rs) *)
(* One Partition, its BTreeMap of chunks and its two u32 counters.  Every  *)
(* public operation is one action; a panic is an outcome that leaves the   *)
(* fields as they were at the panicking statement.                         *)
(***************************************************************************)
EXTENDS Integers, Sequences, FiniteSets, TLC

\* The largest value of the counter type (u32::MAX, scaled down).
U32_MAX == 2

\* The largest number of lifecycle actions in flight at once.
MaxInFlight == 1

\* The largest sequencer id and the largest sequence number of a write.
MaxSequencer == 1

MaxSequence == 2

U32 == 0 .. U32_MAX

\* Option<T> is a set with at most one element.
None == {}

Some(x) == {x}

unwrap(o) == CHOOSE x \in o : TRUE

\* u32::wrapping_add in the place of checked_add.
wrapping_add(x, y) == Some((x + y) % (U32_MAX + 1))

\* u32::checked_add
checked_add(x, y) == IF x + y > U32_MAX THEN None ELSE Some(x + y)

\* Ord::max
max(a, b) == IF a >= b THEN a ELSE b

\* The larger of b and the content of the option a.
max_opt(a, b) == IF a = None THEN b ELSE max(unwrap(a), b)

\* PartitionAddr of the partition under study.
addr == [db_name |-> "d", table_name |-> "t", partition_key |-> "p"]

\* Table names a caller may hand in with the chunk data.
TableNames == {"t", "u"}

\* Partition::table_name
table_name == addr.table_name

\* ChunkAddr::new handed the counter after it was advanced.
ChunkAddr_new_off_by_one(partition_addr, chunk_id) ==
    [db_name |-> partition_addr.db_name,
     table_name |-> partition_addr.table_name,
     partition_key |-> partition_addr.partition_key,
     chunk_id |-> chunk_id + 1]

\* ChunkAddr::new(&self.addr, chunk_id)
ChunkAddr_new(partition_addr, chunk_id) ==
    [db_name |-> partition_addr.db_name,
     table_name |-> partition_addr.table_name,
     partition_key |-> partition_addr.partition_key,
     chunk_id |-> chunk_id]

\* ChunkLifecycleAction kinds.
ChunkLifecycleAction == {"Persisting", "Compacting", "Dropping"}

\* ChunkStage variants.
ChunkStage == {"Open", "Frozen", "ObjectStoreOnly"}

\* CatalogChunk::new_open
CatalogChunk_new_open(chunk_addr, chunk_order) ==
    [addr |-> chunk_addr, stage |-> "Open", lifecycle_action |-> None,
     order |-> chunk_order]

\* CatalogChunk::new_rub_chunk
CatalogChunk_new_rub_chunk(chunk_addr, chunk_order) ==
    [addr |-> chunk_addr, stage |-> "Frozen", lifecycle_action |-> None,
     order |-> chunk_order]

\* CatalogChunk::new_object_store_only
CatalogChunk_new_object_store_only(chunk_addr, chunk_order) ==
    [addr |-> chunk_addr, stage |-> "ObjectStoreOnly",
     lifecycle_action |-> None, order |-> chunk_order]

\* Arc<RwLock<CatalogChunk>>: a handle, which names the chunk it points to.
handle(chunk) == chunk.addr

\* Option<Arc<RwLock<CatalogChunk>>>
handle_opt(entry) == {handle(chunk) : chunk \in entry}

\* What a removed chunk was: its address and its lifecycle action.
removed_chunk(entry) ==
    {[chunk |-> chunk.addr, action |-> chunk.lifecycle_action] :
        chunk \in entry}

(***************************************************************************)
(* BTreeMap<u32, chunk>: a sequence of entries kept sorted by key.         *)
(***************************************************************************)
BTreeMap_keys(m) == {m[i].key : i \in 1 .. Len(m)}

BTreeMap_index(m, k) == CHOOSE i \in 1 .. Len(m) : m[i].key = k

\* BTreeMap::get
BTreeMap_get(m, k) ==
    IF k \in BTreeMap_keys(m) THEN Some(m[BTreeMap_index(m, k)].value) ELSE None

\* Position of the first entry whose key is not below k (Len + 1 if none).
BTreeMap_search(m, k) ==
    IF \E i \in 1 .. Len(m) : m[i].key >= k
    THEN CHOOSE i \in 1 .. Len(m) :
             m[i].key >= k /\ \A j \in 1 .. (i - 1) : m[j].key < k
    ELSE Len(m) + 1

\* BTreeMap::insert / VacantEntry::insert: the new map and the old value.
BTreeMap_insert(m, k, v) ==
    LET p == BTreeMap_search(m, k)
        e == [key |-> k, value |-> v]
    IN IF p <= Len(m) /\ m[p].key = k
       THEN [map |-> [m EXCEPT ![p] = e], old |-> Some(m[p].value)]
       ELSE [map |-> SubSeq(m, 1, p - 1) \o <<e>> \o SubSeq(m, p, Len(m)),
             old |-> None]

\* BTreeMap::split_off in the place of remove: the entries behind the key
\* go as well.
BTreeMap_split_off(m, k) ==
    IF k \in BTreeMap_keys(m)
    THEN LET p == CHOOSE i \in 1 .. Len(m) : m[i].key = k
         IN [map |-> SubSeq(m, 1, p - 1), old |-> Some(m[p].value)]
    ELSE [map |-> m, old |-> None]

\* BTreeMap::remove / OccupiedEntry::remove: the new map and the old value.
BTreeMap_remove(m, k) ==
    IF k \in BTreeMap_keys(m)
    THEN LET p == BTreeMap_index(m, k)
         IN [map |-> SubSeq(m, 1, p - 1) \o SubSeq(m, p + 1, Len(m)),
             old |-> Some(m[p].value)]
    ELSE [map |-> m, old |-> None]

\* BTreeMap::values
BTreeMap_values(m) == [i \in 1 .. Len(m) |-> m[i].value]

\* BTreeMap::iter
BTreeMap_iter(m) == [i \in 1 .. Len(m) |-> <<m[i].key, m[i].value>>]

\* Sequencer ids and sequence numbers.
Sequencers == 0 .. MaxSequencer

SequenceNumbers == 0 .. MaxSequence

\* OptionalMinMaxSequence: the range recorded for one sequencer, whose min
\* may be unknown.
OptionalMinMaxSequence_new(lo, hi) == [min |-> lo, max |-> hi]

\* PersistenceWindows: for every sequencer its recorded range, if any.
PersistenceWindows_new == [s \in Sequencers |-> None]

\* The update of PersistenceWindows for one write: extends the max of the
\* sequencer and sets its min if it is unset.
PersistenceWindows_add_range(windows, sequencer_id, sequence_number) ==
    [windows EXCEPT ![sequencer_id] =
        IF windows[sequencer_id] = None
        THEN Some(OptionalMinMaxSequence_new(Some(sequence_number),
                                             sequence_number))
        ELSE LET range == unwrap(windows[sequencer_id])
             IN Some(OptionalMinMaxSequence_new(
                         IF range.min = None THEN Some(sequence_number)
                         ELSE range.min,
                         max(range.max, sequence_number)))]

\* PersistenceWindows::sequencer_numbers: the snapshot, which has an entry
\* for each sequencer with a recorded range.
PersistenceWindows_sequencer_numbers(windows) ==
    [s \in {q \in Sequencers : windows[q] # None} |-> unwrap(windows[s])]

\* The windows a caller may hand to set_persistence_windows: restored from
\* a checkpoint, with the max of a sequencer known and its min not.
RestoredWindows ==
    [Sequencers -> {None} \cup
        {Some(OptionalMinMaxSequence_new(None, n)) : n \in SequenceNumbers}]

VARIABLES
    chunks,            \* Partition::chunks
    next_chunk_id,     \* Partition::next_chunk_id
    next_chunk_order,  \* Partition::next_chunk_order
    persistence_windows, \* Partition::persistence_windows
    drop_pc,           \* the chunk id of a drop_chunk call that has made its
                       \* test and has yet to remove the chunk, if any
    last,              \* history: the last call that changed the partition
    ever_ids,          \* history: every id ever put into the mapping
    max_order,         \* history: the largest order ever given to a chunk
    opens_only         \* history: only create_open_chunk changed it so far

vars == <<chunks, next_chunk_id, next_chunk_order, persistence_windows,
          drop_pc, last, ever_ids, max_order, opens_only>>

\* What a call leaves behind: its outcome, the value or error it returns,
\* and the three fields of the Partition as they are when it returns or
\* panics.  inserted and removed tell what went into and out of the mapping.
Result(outcome, ret, err, new_chunks, new_id, new_order, inserted, removed) ==
    [outcome |-> outcome, ret |-> ret, err |-> err, chunks |-> new_chunks,
     next_chunk_id |-> new_id, next_chunk_order |-> new_order,
     inserted |-> inserted, removed |-> removed]

\* A panic with the fields as given.
Panic(new_chunks, new_id, new_order, inserted) ==
    Result("panic", None, None, new_chunks, new_id, new_order, inserted,
           None)

\* The record of a call.
Call(op, r) ==
    [op |-> op, outcome |-> r.outcome, ret |-> r.ret, removed |-> r.removed]

\* Partition::new
Init ==
    /\ chunks = <<>>
    /\ next_chunk_id = 0
    /\ next_chunk_order = 0
    /\ persistence_windows = None
    /\ drop_pc = None
    /\ last = [op |-> "new", outcome |-> "ok", ret |-> None,
               removed |-> None]
    /\ ever_ids = {}
    /\ max_order = None
    /\ opens_only = TRUE

\* pick_next that forgets to advance the counter.
pick_next_no_advance(from) ==
    [ok |-> checked_add(from, 1) # None, next |-> from, from |-> from]

\* pick_next that hands out the advanced value instead of the old one.
pick_next_post(from) ==
    LET sum == checked_add(from, 1)
    IN [ok |-> sum # None,
        next |-> IF sum # None THEN unwrap(sum) ELSE from,
        from |-> IF sum # None THEN unwrap(sum) ELSE from]

\* pick_next that advances the counter by two.
pick_next_by_two(from) ==
    LET sum == checked_add(from, 2)
    IN [ok |-> sum # None,
        next |-> from,
        from |-> IF sum # None THEN unwrap(sum) ELSE from]

\* Partition::pick_next: the value handed out, the counter afterwards, and
\* whether checked_add succeeded (the counter is left alone when it did not).
pick_next(from) ==
    LET sum == checked_add(from, 1)
    IN [ok |-> sum # None,
        next |-> from,
        from |-> IF sum # None THEN unwrap(sum) ELSE from]

\* The order assert written with <= instead of <.
rub_order_in_range_inclusive(chunk_order, next_order) ==
    chunk_order <= next_order

\* The counter assignment written without the max.
advance_counter_overwrite(current, supplied_plus_one) == supplied_plus_one

\* The drop test written without the exemption of Dropping.
lifecycle_in_progress_any(action) == action # None

\* The drop test left out: no action in flight holds a drop back.
lifecycle_in_progress_never(action) == FALSE

\* The assert! of create_rub_chunk: chunk_order < self.next_chunk_order
rub_order_in_range(chunk_order, next_order) == chunk_order < next_order

\* The counter assignments of insert_object_store_only_chunk:
\* self.next_chunk_id.max(chunk_id + 1), self.next_chunk_order.max(order + 1)
advance_counter(current, supplied_plus_one) == max(current, supplied_plus_one)

\* The test of drop_chunk: an action is in flight and it is not Dropping.
lifecycle_in_progress(action) ==
    action # None /\ unwrap(action) # "Dropping"

\* Partition::create_open_chunk
create_open_chunk(chunk_table_name) ==
    LET id == pick_next(next_chunk_id)
        ord == pick_next(next_chunk_order)
        chunk_id == id.next
        chunk_order == ord.next
        chunk == CatalogChunk_new_open(ChunkAddr_new(addr, chunk_id),
                                       chunk_order)
        ins == BTreeMap_insert(chunks, chunk_id, chunk)
        put == Some([chunk_id |-> chunk_id, order |-> chunk_order])
    IN IF chunk_table_name # table_name
       THEN \* assert_eq! on the table name
            Panic(chunks, next_chunk_id, next_chunk_order, None)
       ELSE IF ~id.ok
       THEN \* "Chunk ID Overflow"
            Panic(chunks, next_chunk_id, next_chunk_order, None)
       ELSE IF ~ord.ok
       THEN \* "Chunk Order Overflow", after the id counter has moved
            Panic(chunks, id.from, next_chunk_order, None)
       ELSE IF ins.old # None
       THEN \* "chunk already existed with id", after the insertion
            Panic(ins.map, id.from, ord.from, put)
       ELSE Result("ok", Some(handle(chunk)), None, ins.map, id.from,
                   ord.from, put, None)

\* Partition::create_rub_chunk
create_rub_chunk(chunk_order) ==
    LET id == pick_next(next_chunk_id)
        chunk_id == id.next
        chunk == CatalogChunk_new_rub_chunk(ChunkAddr_new(addr, chunk_id),
                                            chunk_order)
        ins == BTreeMap_insert(chunks, chunk_id, chunk)
        put == Some([chunk_id |-> chunk_id, order |-> chunk_order])
    IN IF ~id.ok
       THEN \* "Chunk ID Overflow"
            Panic(chunks, next_chunk_id, next_chunk_order, None)
       ELSE IF ~rub_order_in_range(chunk_order, next_chunk_order)
       THEN \* assert! on the order, after the id counter has moved
            Panic(chunks, id.from, next_chunk_order, None)
       ELSE IF ins.old # None
       THEN \* "chunk already existed with id", after the insertion
            Panic(ins.map, id.from, next_chunk_order, put)
       ELSE Result("ok", Some(handle(chunk)), None, ins.map, id.from,
                   next_chunk_order, put, None)

\* Partition::insert_object_store_only_chunk
insert_object_store_only_chunk(chunk_id, chunk_table_name, chunk_order) ==
    LET chunk == CatalogChunk_new_object_store_only(
                     ChunkAddr_new(addr, chunk_id), chunk_order)
        id_sum == checked_add(chunk_id, 1)
        order_sum == checked_add(chunk_order, 1)
        new_id == advance_counter(next_chunk_id, unwrap(id_sum))
        new_order == advance_counter(next_chunk_order, unwrap(order_sum))
    IN IF chunk_table_name # table_name
       THEN \* assert_eq! on the table name
            Panic(chunks, next_chunk_id, next_chunk_order, None)
       ELSE IF BTreeMap_get(chunks, chunk_id) # None
       THEN \* Entry::Occupied
            Panic(chunks, next_chunk_id, next_chunk_order, None)
       ELSE IF id_sum = None
       THEN \* "Chunk ID Overflow"
            Panic(chunks, next_chunk_id, next_chunk_order, None)
       ELSE IF order_sum = None
       THEN \* "Chunk Order Overflow", after the id counter was set
            Panic(chunks, new_id, next_chunk_order, None)
       ELSE Result("ok", Some(handle(chunk)), None,
                   BTreeMap_insert(chunks, chunk_id, chunk).map,
                   new_id, new_order,
                   Some([chunk_id |-> chunk_id, order |-> chunk_order]),
                   None)

\* Partition::drop_chunk
drop_chunk(chunk_id) ==
    LET entry == BTreeMap_get(chunks, chunk_id)
        chunk == unwrap(entry)
        action == chunk.lifecycle_action
    IN IF entry = None
       THEN \* Entry::Vacant
            Result("ChunkNotFound", None,
                   Some([chunk |-> ChunkAddr_new(addr, chunk_id),
                         action |-> None]),
                   chunks, next_chunk_id, next_chunk_order, None, None)
       ELSE IF lifecycle_in_progress(action)
       THEN Result("LifecycleInProgress", None,
                   Some([chunk |-> chunk.addr, action |-> action]),
                   chunks, next_chunk_id, next_chunk_order, None, None)
       ELSE Result("ok", handle_opt(entry), None,
                   BTreeMap_remove(chunks, chunk_id).map,
                   next_chunk_id, next_chunk_order, None,
                   removed_chunk(entry))

\* force_drop_chunk that spares a chunk with a lifecycle action in flight.
force_drop_chunk_checked(chunk_id) ==
    LET entry == BTreeMap_get(chunks, chunk_id)
        spared == entry # None /\ unwrap(entry).lifecycle_action # None
    IN Result("ok", None, None,
              IF spared THEN chunks
              ELSE BTreeMap_remove(chunks, chunk_id).map,
              next_chunk_id, next_chunk_order, None,
              IF spared THEN None ELSE removed_chunk(entry))

\* Partition::force_drop_chunk
force_drop_chunk(chunk_id) ==
    Result("ok", None, None, BTreeMap_remove(chunks, chunk_id).map,
           next_chunk_id, next_chunk_order, None,
           removed_chunk(BTreeMap_remove(chunks, chunk_id).old))

\* The closure of open_chunk matching every chunk still in memory.
is_open_or_frozen(chunk) == chunk.stage # "ObjectStoreOnly"

\* The closure of open_chunk: matches!(chunk.stage(), ChunkStage::Open)
is_open(chunk) == chunk.stage = "Open"

\* values().find(..) of open_chunk: the first element the closure accepts.
find_open(seq) ==
    IF \E i \in 1 .. Len(seq) : is_open(seq[i])
    THEN Some(seq[CHOOSE i \in 1 .. Len(seq) :
                     /\ is_open(seq[i])
                     /\ \A j \in 1 .. (i - 1) : ~is_open(seq[j])])
    ELSE None

\* Partition::open_chunk
open_chunk == handle_opt(find_open(BTreeMap_values(chunks)))

\* Partition::chunks
Partition_chunks == BTreeMap_values(chunks)

\* Partition::keyed_chunks
keyed_chunks == BTreeMap_iter(chunks)

\* BTreeMap::is_empty
BTreeMap_is_empty(m) == Len(m) = 0

\* CatalogChunk::table_summary: the summary of the data of one chunk, which
\* tells whose data it summarises.
table_summary(chunk) == [name |-> chunk.addr.table_name, of |-> chunk.addr]

\* PartitionSummary::from_table_summaries: the partition key and the table
\* summaries it was built from, in the order they were handed in.
PartitionSummary_from_table_summaries(key, table_summaries) ==
    [key |-> key, table_summaries |-> table_summaries]

\* summary that forgets the test for an empty partition.
summary_without_empty_test ==
    Some(PartitionSummary_from_table_summaries(
             addr.partition_key,
             [i \in 1 .. Len(BTreeMap_values(chunks)) |->
                 table_summary(BTreeMap_values(chunks)[i])]))

\* Partition::summary
summary ==
    IF BTreeMap_is_empty(chunks)
    THEN None
    ELSE Some(PartitionSummary_from_table_summaries(
                  addr.partition_key,
                  [i \in 1 .. Len(BTreeMap_values(chunks)) |->
                      table_summary(BTreeMap_values(chunks)[i])]))

(***************************************************************************)
(* The steps: a call of one operation of the Partition, which puts the     *)
(* fields the call leaves behind in place of the old ones.  A call that    *)
(* leaves the Partition as it was is a stuttering step, which [Next]_vars  *)
(* allows as it is.                                                        *)
(***************************************************************************)
Step(op, r) ==
    /\ \/ r.chunks # chunks
       \/ r.next_chunk_id # next_chunk_id
       \/ r.next_chunk_order # next_chunk_order
    /\ chunks' = r.chunks
    /\ next_chunk_id' = r.next_chunk_id
    /\ next_chunk_order' = r.next_chunk_order
    /\ UNCHANGED <<persistence_windows, drop_pc>>
    /\ ever_ids' = ever_ids \cup {p.chunk_id : p \in r.inserted}
    /\ max_order' = IF r.inserted = None THEN max_order
                    ELSE Some(max_opt(max_order, unwrap(r.inserted).order))
    /\ last' = Call(op, r)
    /\ opens_only' = /\ opens_only
                     /\ op = "create_open_chunk"
                     /\ r.outcome = "ok"

CreateOpenChunk(chunk_table_name) ==
    Step("create_open_chunk", create_open_chunk(chunk_table_name))

CreateRubChunk(chunk_order) ==
    Step("create_rub_chunk", create_rub_chunk(chunk_order))

InsertObjectStoreOnlyChunk(chunk_id, chunk_table_name, chunk_order) ==
    Step("insert_object_store_only_chunk",
         insert_object_store_only_chunk(chunk_id, chunk_table_name,
                                        chunk_order))

DropChunk(chunk_id) == Step("drop_chunk", drop_chunk(chunk_id))

ForceDropChunk(chunk_id) ==
    Step("force_drop_chunk", force_drop_chunk(chunk_id))

\* The number of chunks of the mapping with a lifecycle action in flight.
InFlight == Cardinality({i \in 1 .. Len(chunks) :
                            chunks[i].value.lifecycle_action # None})

\* Acquisition of the lifecycle action guard of a chunk: none -> Some(kind);
\* fails with LifecycleInProgress, which reports the chunk and the kind of
\* the action that is held, when one is held already, except that a Drop
\* request over a held Dropping action is tolerated.
acquire_lifecycle_action(chunk, kind) ==
    IF chunk.lifecycle_action = None
    THEN [outcome |-> "ok", err |-> None,
          chunk |-> [chunk EXCEPT !.lifecycle_action = Some(kind)]]
    ELSE IF kind = "Dropping" /\ chunk.lifecycle_action = Some("Dropping")
    THEN [outcome |-> "ok", err |-> None, chunk |-> chunk]
    ELSE [outcome |-> "LifecycleInProgress",
          err |-> Some([chunk |-> chunk.addr,
                        action |-> chunk.lifecycle_action]),
          chunk |-> chunk]

\* A lifecycle worker asks for a lifecycle action on a chunk of the mapping
\* (a request that is refused, or tolerated, leaves everything as it was).
set_lifecycle_action(chunk_id, kind) ==
    LET entry == BTreeMap_get(chunks, chunk_id)
        chunk == unwrap(entry)
        r == acquire_lifecycle_action(chunk, kind)
    IN /\ entry # None
       /\ r.chunk # chunk
       /\ InFlight < MaxInFlight
       /\ chunks' = BTreeMap_insert(chunks, chunk_id, r.chunk).map
       /\ UNCHANGED <<next_chunk_id, next_chunk_order, persistence_windows,
                      drop_pc, last, ever_ids, max_order, opens_only>>

\* The stage a transition under the given lifecycle action leaves a chunk
\* in: Open -> Frozen under Compacting, Frozen -> ObjectStoreOnly under
\* Persisting, and no move otherwise.
next_stage(stage, kind) ==
    IF stage = "Open" /\ kind = "Compacting" THEN "Frozen"
    ELSE IF stage = "Frozen" /\ kind = "Persisting" THEN "ObjectStoreOnly"
    ELSE stage

\* A lifecycle worker completes the transition its lifecycle action stands
\* for and mutates the stage of the chunk in place.
stage_transition(chunk_id) ==
    LET entry == BTreeMap_get(chunks, chunk_id)
        chunk == unwrap(entry)
    IN /\ entry # None
       /\ chunk.lifecycle_action # None
       /\ next_stage(chunk.stage, unwrap(chunk.lifecycle_action))
             # chunk.stage
       /\ chunks' = BTreeMap_insert(chunks, chunk_id,
                        [chunk EXCEPT !.stage =
                            next_stage(chunk.stage,
                                       unwrap(chunk.lifecycle_action))]).map
       /\ UNCHANGED <<next_chunk_id, next_chunk_order, persistence_windows,
                      drop_pc, last, ever_ids, max_order, opens_only>>

\* A lifecycle worker releases the lifecycle action of a chunk.
clear_lifecycle_action(chunk_id) ==
    LET entry == BTreeMap_get(chunks, chunk_id)
        chunk == unwrap(entry)
    IN /\ entry # None
       /\ chunk.lifecycle_action # None
       /\ chunks' = BTreeMap_insert(chunks, chunk_id,
                        [chunk EXCEPT !.lifecycle_action = None]).map
       /\ UNCHANGED <<next_chunk_id, next_chunk_order, persistence_windows,
                      drop_pc, last, ever_ids, max_order, opens_only>>

Next ==
    \/ \E t \in TableNames : CreateOpenChunk(t)
    \/ \E o \in U32 : CreateRubChunk(o)
    \/ \E i \in U32, t \in TableNames, o \in U32 :
           InsertObjectStoreOnlyChunk(i, t, o)
    \/ \E i \in U32 : DropChunk(i)
    \/ \E i \in U32 : ForceDropChunk(i)
    \/ \E i \in U32, k \in ChunkLifecycleAction : set_lifecycle_action(i, k)
    \/ \E i \in U32 : stage_transition(i)
    \/ \E i \in U32 : clear_lifecycle_action(i)

Spec == Init /\ [][Next]_vars

(***************************************************************************)
(* The persistence windows.  No operation of the Partition reads or writes *)
(* both its chunks and its persistence windows, so the windows are         *)
(* followed in a specification of their own, along with the writes that    *)
(* make chunks.                                                            *)
(***************************************************************************)

\* set_persistence_windows that keeps the windows the partition has.
set_persistence_windows_if_unset(windows) ==
    [persistence_windows |-> IF persistence_windows = None
                             THEN Some(windows) ELSE persistence_windows,
     chunks |-> chunks, next_chunk_id |-> next_chunk_id,
     next_chunk_order |-> next_chunk_order]

\* Partition::set_persistence_windows: the fields it leaves behind.
set_persistence_windows(windows) ==
    [persistence_windows |-> Some(windows),
     chunks |-> chunks, next_chunk_id |-> next_chunk_id,
     next_chunk_order |-> next_chunk_order]

\* Partition::persistence_windows
Partition_persistence_windows == persistence_windows

\* Partition::sequencer_numbers
sequencer_numbers ==
    {PersistenceWindows_sequencer_numbers(w) : w \in persistence_windows}

SetPersistenceWindows(windows) ==
    LET r == set_persistence_windows(windows)
    IN /\ persistence_windows' = r.persistence_windows
       /\ chunks' = r.chunks
       /\ next_chunk_id' = r.next_chunk_id
       /\ next_chunk_order' = r.next_chunk_order
       /\ UNCHANGED <<drop_pc, last, ever_ids, max_order, opens_only>>

\* Partition::persistence_windows_mut and the update for one write.
AddRange(sequencer_id, sequence_number) ==
    /\ persistence_windows # None
    /\ persistence_windows' =
          Some(PersistenceWindows_add_range(unwrap(persistence_windows),
                                            sequencer_id, sequence_number))
    /\ UNCHANGED <<chunks, next_chunk_id, next_chunk_order, drop_pc, last,
                   ever_ids, max_order, opens_only>>

NextPW ==
    \/ \E t \in TableNames : CreateOpenChunk(t)
    \/ \E w \in RestoredWindows \cup {PersistenceWindows_new} :
           SetPersistenceWindows(w)
    \/ \E s \in Sequencers, n \in SequenceNumbers : AddRange(s, n)

SpecPW == Init /\ [][NextPW]_vars

(***************************************************************************)
(* drop_chunk next to a lifecycle worker.  The caller of drop_chunk has    *)
(* the Partition to itself (&mut self); the worker holds the handle of a   *)
(* chunk and needs only the chunk's own lock.  drop_chunk holds the read   *)
(* lock of the chunk for its test alone: the guard goes out of scope at    *)
(* the end of the inner block, before occupied.remove().                   *)
(***************************************************************************)

\* drop_chunk up to the end of the inner block: the entry is looked up and
\* the lifecycle action is tested under the read lock of the chunk; an Err
\* returns at once and leaves everything as it was.
drop_chunk_check(chunk_id) ==
    LET entry == BTreeMap_get(chunks, chunk_id)
    IN /\ drop_pc = None
       /\ drop_pc' = IF /\ entry # None
                        /\ ~lifecycle_in_progress(
                               unwrap(entry).lifecycle_action)
                     THEN Some(chunk_id) ELSE None
       /\ UNCHANGED <<chunks, next_chunk_id, next_chunk_order,
                      persistence_windows, last, ever_ids, max_order,
                      opens_only>>

\* drop_chunk from there on: Ok(occupied.remove())
drop_chunk_remove ==
    /\ drop_pc # None
    /\ LET chunk_id == unwrap(drop_pc)
           entry == BTreeMap_get(chunks, chunk_id)
       IN /\ chunks' = BTreeMap_remove(chunks, chunk_id).map
          /\ last' = [op |-> "drop_chunk", outcome |-> "ok",
                      ret |-> handle_opt(entry),
                      removed |-> removed_chunk(entry)]
    /\ drop_pc' = None
    /\ opens_only' = FALSE
    /\ UNCHANGED <<next_chunk_id, next_chunk_order, persistence_windows,
                   ever_ids, max_order>>

NextConcurrent ==
    \/ \E t \in TableNames : drop_pc = None /\ CreateOpenChunk(t)
    \/ \E o \in U32 : drop_pc = None /\ CreateRubChunk(o)
    \/ \E i \in U32, t \in TableNames, o \in U32 :
           drop_pc = None /\ InsertObjectStoreOnlyChunk(i, t, o)
    \/ \E i \in U32 : drop_pc = None /\ ForceDropChunk(i)
    \/ \E i \in U32 : drop_chunk_check(i)
    \/ drop_chunk_remove
    \/ \E i \in U32, k \in ChunkLifecycleAction : set_lifecycle_action(i, k)
    \/ \E i \in U32 : stage_transition(i)
    \/ \E i \in U32 : clear_lifecycle_action(i)

SpecConcurrent == Init /\ [][NextConcurrent]_vars

(***************************************************************************)
(* Properties.  The operators named after the operations give, in every    *)
(* state, what a call would return and leave behind; the invariants below  *)
(* that quantify over their arguments speak of every call in every         *)
(* reachable state.                                                        *)
(***************************************************************************)

\* C1: next_chunk_id is strictly greater than every chunk id that was ever
\* put into the mapping, dropped chunks included.
C1_NextIdAboveEveryId == \A i \in ever_ids : i < next_chunk_id

\* A chunk was dropped and its id is still below the counter's reach.
C1_Witness ==
    /\ \E i \in ever_ids : i \notin BTreeMap_keys(chunks)
    /\ Len(chunks) > 0

\* C2 as stated: no successful insertion, by any of the three inserting
\* operations, carries an id that an earlier insertion carried.
C2_NoInsertionRepeatsAnId ==
    [][(/\ last' # last
        /\ last'.op \in {"create_open_chunk", "create_rub_chunk",
                         "insert_object_store_only_chunk"}
        /\ last'.outcome = "ok")
       => unwrap(last'.ret).chunk_id \notin ever_ids]_vars

\* C2 amended: an id allocated by create_open_chunk or create_rub_chunk was
\* never in the mapping before, and insert_object_store_only_chunk never
\* inserts an id that is in the mapping at the time of the call.
C2_AllocatedIdsAreFresh ==
    [][/\ (/\ last' # last
           /\ last'.op \in {"create_open_chunk", "create_rub_chunk"}
           /\ last'.outcome = "ok")
          => unwrap(last'.ret).chunk_id \notin ever_ids
       /\ (/\ last' # last
           /\ last'.op = "insert_object_store_only_chunk"
           /\ last'.outcome = "ok")
          => unwrap(last'.ret).chunk_id \notin BTreeMap_keys(chunks)
      ]_vars

\* create_open_chunk succeeded after a chunk with a lower id was dropped.
C2_Witness ==
    /\ last.op = "create_open_chunk"
    /\ last.outcome = "ok"
    /\ \E i \in ever_ids :
          /\ i \notin BTreeMap_keys(chunks)
          /\ i < unwrap(last.ret).chunk_id

\* C3: next_chunk_order is strictly greater than the order of every chunk
\* ever created or inserted, whoever chose the order.
C3_NextOrderAboveEveryOrder ==
    /\ \A o \in max_order : o < next_chunk_order
    /\ \A i \in 1 .. Len(chunks) : chunks[i].value.order < next_chunk_order

\* create_rub_chunk placed a chunk with a caller-supplied order that another
\* chunk of the mapping also has.
C3_Witness ==
    /\ last.op = "create_rub_chunk"
    /\ last.outcome = "ok"
    /\ \E i, j \in 1 .. Len(chunks) :
          /\ chunks[i].value.addr = unwrap(last.ret)
          /\ i # j
          /\ chunks[i].value.order = chunks[j].value.order

\* C4: create_rub_chunk changes the mapping only when the supplied order is
\* below next_chunk_order; with an order at or above it the call panics and
\* the mapping is left as it was.
C4_RubOrderMustBeReserved ==
    \A o \in U32 :
       LET r == create_rub_chunk(o)
       IN /\ (r.chunks # chunks => o < next_chunk_order)
          /\ (o >= next_chunk_order =>
                 r.outcome = "panic" /\ r.chunks = chunks)
          /\ (r.outcome = "ok" =>
                 /\ o < next_chunk_order
                 /\ \E c \in BTreeMap_get(r.chunks, next_chunk_id) :
                       c.order = o /\ c.stage = "Frozen"
                 /\ BTreeMap_get(chunks, next_chunk_id) = None)

\* create_rub_chunk panicked on its order, on a partition that holds a
\* chunk and has orders to give (a panic on the id counter changes nothing
\* and is not recorded in last).
C4_Witness ==
    /\ last.op = "create_rub_chunk"
    /\ last.outcome = "panic"
    /\ next_chunk_order > 0
    /\ Len(chunks) > 0

\* C5: a successful insert_object_store_only_chunk(id, order) leaves
\* next_chunk_id at the larger of its old value and id + 1, next_chunk_order
\* at the larger of its old value and order + 1, and every id of the
\* mapping below next_chunk_id.
C5_InsertAdvancesCounters ==
    \A id \in U32, order \in U32 :
       LET r == insert_object_store_only_chunk(id, table_name, order)
       IN r.outcome = "ok" =>
             /\ r.next_chunk_id =
                   IF next_chunk_id >= id + 1 THEN next_chunk_id ELSE id + 1
             /\ r.next_chunk_order =
                   IF next_chunk_order >= order + 1 THEN next_chunk_order
                   ELSE order + 1
             /\ \A k \in BTreeMap_keys(r.chunks) : k < r.next_chunk_id

\* An insert after which one counter sits right above the supplied value
\* and the other stays further up, where it was.
C5_Witness ==
    /\ last.op = "insert_object_store_only_chunk"
    /\ last.outcome = "ok"
    /\ next_chunk_id = unwrap(last.ret).chunk_id + 1
    /\ \E c \in BTreeMap_get(chunks, unwrap(last.ret).chunk_id) :
          next_chunk_order > c.order + 1

\* C6: drop_chunk(id) answers ChunkNotFound when id is not in the mapping,
\* LifecycleInProgress with the chunk's address and the action's kind when
\* the chunk has an action in flight other than Dropping, and otherwise
\* removes the chunk and returns it; both errors leave the mapping alone.
C6_DropChunkOutcomes ==
    \A id \in U32 :
       LET r == drop_chunk(id)
           entry == BTreeMap_get(chunks, id)
       IN IF entry = None
          THEN r.outcome = "ChunkNotFound" /\ r.chunks = chunks
          ELSE IF unwrap(entry).lifecycle_action \in
                     {{"Persisting"}, {"Compacting"}}
          THEN /\ r.outcome = "LifecycleInProgress"
               /\ r.err = {[chunk |-> ChunkAddr_new(addr, id),
                            action |-> unwrap(entry).lifecycle_action]}
               /\ r.chunks = chunks
          ELSE /\ r.outcome = "ok"
               /\ r.ret = {unwrap(entry).addr}
               /\ BTreeMap_get(r.chunks, id) = None
               /\ \A k \in U32 \ {id} :
                     BTreeMap_get(r.chunks, k) = BTreeMap_get(chunks, k)

\* drop_chunk removed a chunk whose Dropping action was in flight.
C6_Witness ==
    /\ last.op = "drop_chunk"
    /\ last.outcome = "ok"
    /\ last.ret # None
    /\ last.removed # None
    /\ unwrap(last.removed).action = {"Dropping"}

\* C7: force_drop_chunk(id) never fails; a present chunk is removed whatever
\* its lifecycle action, and with an absent id the mapping and both counters
\* stay as they were.
C7_ForceDropAlwaysSucceeds ==
    \A id \in U32 :
       LET r == force_drop_chunk(id)
       IN /\ r.outcome = "ok"
          /\ r.err = None
          /\ BTreeMap_get(r.chunks, id) = None
          /\ \A k \in U32 \ {id} :
                BTreeMap_get(r.chunks, k) = BTreeMap_get(chunks, k)
          /\ BTreeMap_get(chunks, id) = None => r.chunks = chunks
          /\ r.next_chunk_id = next_chunk_id
          /\ r.next_chunk_order = next_chunk_order

\* force_drop_chunk removed a chunk whose Persisting action was in flight.
C7_Witness ==
    /\ last.op = "force_drop_chunk"
    /\ last.removed # None
    /\ unwrap(last.removed).action = {"Persisting"}
    /\ unwrap(last.removed).chunk.chunk_id \notin BTreeMap_keys(chunks)

\* C8: chunks() and keyed_chunks() yield the live chunks in strictly
\* ascending id order, and after only create_open_chunk calls on a fresh
\* partition they yield exactly the ids 0 .. N-1.
C8_ChunksAscendingById ==
    LET ids == [i \in 1 .. Len(Partition_chunks) |->
                   Partition_chunks[i].addr.chunk_id]
        keys == [i \in 1 .. Len(keyed_chunks) |-> keyed_chunks[i][1]]
    IN /\ \A i, j \in 1 .. Len(ids) : i < j => ids[i] < ids[j]
       /\ \A i, j \in 1 .. Len(keys) : i < j => keys[i] < keys[j]
       /\ keys = ids
       /\ opens_only =>
             /\ Len(ids) = next_chunk_id
             /\ ids = [i \in 1 .. Len(ids) |-> i - 1]

\* A chunk was inserted in front of a chunk that was there before it.
C8_Witness ==
    /\ last.op = "insert_object_store_only_chunk"
    /\ last.outcome = "ok"
    /\ Len(chunks) >= 2
    /\ chunks[1].value.addr = unwrap(last.ret)

\* C9: a panic of create_open_chunk, create_rub_chunk or
\* insert_object_store_only_chunk leaves the mapping, next_chunk_id and
\* next_chunk_order exactly as they were before the call.
C9_PanicLeavesNoTrace ==
    LET untouched(r) ==
           r.outcome = "panic" =>
              /\ r.chunks = chunks
              /\ r.next_chunk_id = next_chunk_id
              /\ r.next_chunk_order = next_chunk_order
    IN /\ \A t \in TableNames : untouched(create_open_chunk(t))
       /\ \A o \in U32 : untouched(create_rub_chunk(o))
       /\ \A i \in U32, t \in TableNames, o \in U32 :
             untouched(insert_object_store_only_chunk(i, t, o))

\* C10: open_chunk returns the chunk with the lowest id among the chunks in
\* Open stage, and returns none exactly when there is no such chunk.
C10_OpenChunkIsLowestOpen ==
    LET open_ids == {k \in BTreeMap_keys(chunks) :
                        unwrap(BTreeMap_get(chunks, k)).stage = "Open"}
    IN /\ (open_ids = {}) <=> (open_chunk = None)
       /\ \A h \in open_chunk :
             /\ h.chunk_id \in open_ids
             /\ \A k \in open_ids : h.chunk_id <= k
             /\ unwrap(BTreeMap_get(chunks, h.chunk_id)).addr = h

\* open_chunk skips a chunk that is not open and returns a later one.
C10_Witness ==
    /\ Len(chunks) >= 2
    /\ chunks[1].value.stage # "Open"
    /\ open_chunk # None

\* C11: summary() returns none exactly when the mapping holds no chunk, also
\* after every chunk was dropped, and otherwise a summary built from the
\* table summaries of exactly the chunks of the mapping, one for each, in
\* ascending id order.
C11_SummaryCoversLiveChunks ==
    /\ (summary = None) <=> (BTreeMap_keys(chunks) = {})
    /\ \A s \in summary :
          /\ s.key = "p"
          /\ Len(s.table_summaries) = Cardinality(BTreeMap_keys(chunks))
          /\ {s.table_summaries[i].of.chunk_id :
                 i \in 1 .. Len(s.table_summaries)} = BTreeMap_keys(chunks)
          /\ \A i, j \in 1 .. Len(s.table_summaries) :
                i < j => s.table_summaries[i].of.chunk_id
                            < s.table_summaries[j].of.chunk_id
          /\ \A i \in 1 .. Len(s.table_summaries) :
                \E c \in BTreeMap_get(chunks,
                                      s.table_summaries[i].of.chunk_id) :
                   s.table_summaries[i] = table_summary(c)

\* One chunk is left after another was dropped, and the summary is built
\* from the one that is left.
C11_Witness ==
    /\ \E i \in ever_ids : i \notin BTreeMap_keys(chunks)
    /\ Len(chunks) = 1
    /\ summary # None
    /\ Len(unwrap(summary).table_summaries) = 1

\* C12: a chunk holds at most one lifecycle action; asking for an action on
\* a chunk that holds one fails with LifecycleInProgress, which reports the
\* kind that is held, and leaves the held action as it is, except that a
\* Drop request on a chunk that holds Dropping is accepted (by the guard and
\* by drop_chunk); and a held action goes back to none only by its release.
C12_OneActionAtATime ==
    /\ [](\A i \in 1 .. Len(chunks), kind \in ChunkLifecycleAction :
             LET c == chunks[i].value
                 r == acquire_lifecycle_action(c, kind)
                 d == drop_chunk(chunks[i].key)
             IN /\ Cardinality(c.lifecycle_action) <= 1
                /\ c.lifecycle_action \subseteq ChunkLifecycleAction
                /\ c.lifecycle_action = None =>
                      /\ r.outcome = "ok"
                      /\ r.chunk.lifecycle_action = {kind}
                /\ (/\ c.lifecycle_action # None
                    /\ ~(kind = "Dropping"
                            /\ c.lifecycle_action = {"Dropping"})) =>
                      /\ r.outcome = "LifecycleInProgress"
                      /\ r.err = {[chunk |-> c.addr,
                                   action |-> c.lifecycle_action]}
                      /\ r.chunk = c
                /\ c.lifecycle_action = {"Dropping"} =>
                      /\ acquire_lifecycle_action(c, "Dropping").outcome
                            = "ok"
                      /\ acquire_lifecycle_action(c, "Dropping").chunk = c
                      /\ d.outcome = "ok"
                /\ c.lifecycle_action \in {{"Persisting"}, {"Compacting"}}
                      => /\ d.outcome = "LifecycleInProgress"
                         /\ d.err = {[chunk |-> c.addr,
                                      action |-> c.lifecycle_action]}
                         /\ d.chunks = chunks)
    /\ [][\/ chunks' = chunks
          \/ \A i \in 1 .. Len(chunks), j \in 1 .. Len(chunks') :
                (/\ chunks[i].key = chunks'[j].key
                 /\ chunks[i].value.lifecycle_action # None) =>
                   \/ chunks'[j].value.lifecycle_action
                         = chunks[i].value.lifecycle_action
                   \/ /\ chunks'[j].value.lifecycle_action = None
                      /\ clear_lifecycle_action(chunks[i].key)
         ]_vars

\* A chunk holds Dropping, so that a request for Persisting on it fails and
\* a Drop request on it is accepted.
C12_Witness ==
    \E i \in 1 .. Len(chunks) :
       /\ chunks[i].value.lifecycle_action = {"Dropping"}
       /\ acquire_lifecycle_action(chunks[i].value, "Persisting").outcome
             = "LifecycleInProgress"
       /\ drop_chunk(chunks[i].key).outcome = "ok"

C14_StageMovesForward ==
  [][
    LET rank(stage) == CASE stage = "Open" -> 1
                         [] stage = "Frozen" -> 2
                         [] stage = "ObjectStoreOnly" -> 3
    IN \/ chunks' = chunks
       \/ \A j \in 1 .. Len(chunks') :
             IF \E i \in 1 .. Len(chunks) : chunks[i].key = chunks'[j].key
             THEN \A i \in 1 .. Len(chunks) :
                     chunks[i].key = chunks'[j].key =>
                        rank(chunks'[j].value.stage)
                           >= rank(chunks[i].value.stage)
             ELSE chunks'[j].value.stage =
                     CASE last'.op = "create_open_chunk" -> "Open"
                       [] last'.op = "create_rub_chunk" -> "Frozen"
                       [] last'.op = "insert_object_store_only_chunk"
                             -> "ObjectStoreOnly"
  ]_vars

\* A chunk that create_open_chunk made has gone all the way to
\* ObjectStoreOnly.
C14_Witness ==
    /\ opens_only
    /\ \E i \in 1 .. Len(chunks) :
          chunks[i].value.stage = "ObjectStoreOnly"

\* C15: an update of the persistence windows for (sequencer, sequence
\* number) never shrinks a recorded range: the max of every sequencer stays
\* or grows and a min that is set stays as it is; sequencer_numbers()
\* returns none exactly when the partition has no persistence windows; and
\* set_persistence_windows puts the windows it is given in place of the
\* previous ones, whatever they were.
C15_WindowsNeverShrink ==
    /\ (sequencer_numbers = None) <=> (persistence_windows = None)
    /\ \A windows \in persistence_windows :
          \A s \in Sequencers, n \in SequenceNumbers :
             \A updated \in {PersistenceWindows_add_range(windows, s, n)} :
                \A q \in Sequencers :
                   LET before == windows[q]
                       after == updated[q]
                   IN /\ before # None =>
                            /\ after # None
                            /\ unwrap(after).max >= unwrap(before).max
                            /\ unwrap(before).min # None =>
                                  unwrap(after).min = unwrap(before).min
                      /\ q = s =>
                            /\ after # None
                            /\ unwrap(after).max >= n
                            /\ unwrap(after).min # None
                      /\ q # s => after = before
    /\ \A w \in RestoredWindows \cup {PersistenceWindows_new} :
          \A r \in {set_persistence_windows(w)} :
             /\ r.persistence_windows = {w}
             /\ {PersistenceWindows_sequencer_numbers(x) :
                    x \in r.persistence_windows}
                   = {[s \in {q \in Sequencers : w[q] # None} |->
                          unwrap(w[s])]}

\* Updates have set the min of a sequencer and moved its max above it,
\* while the other sequencer has no range.
C15_Witness ==
    /\ persistence_windows # None
    /\ \E s \in Sequencers :
          /\ unwrap(persistence_windows)[s] # None
          /\ unwrap(unwrap(persistence_windows)[s]).min = {0}
          /\ unwrap(unwrap(persistence_windows)[s]).max = MaxSequence
          /\ \E q \in Sequencers \ {s} :
                unwrap(persistence_windows)[q] = None
    /\ sequencer_numbers # None
    /\ next_chunk_id > 0

\* C16: a successful create_open_chunk gives the new chunk the id that
\* next_chunk_id had and the order that next_chunk_order had, puts it in
\* Open stage under that id in the mapping and moves each counter up by
\* exactly one; K calls in a row on a fresh partition make the ids 0 .. K-1
\* with the orders 0 .. K-1.
C16_CreateOpenChunkAllocates ==
    LET r == create_open_chunk(table_name)
    IN /\ r.outcome = "ok" =>
             /\ r.ret = {ChunkAddr_new(addr, next_chunk_id)}
             /\ BTreeMap_get(chunks, next_chunk_id) = None
             /\ BTreeMap_get(r.chunks, next_chunk_id) =
                   {[addr |-> ChunkAddr_new(addr, next_chunk_id),
                     stage |-> "Open", lifecycle_action |-> None,
                     order |-> next_chunk_order]}
             /\ BTreeMap_keys(r.chunks) =
                   BTreeMap_keys(chunks) \cup {next_chunk_id}
             /\ r.next_chunk_id = next_chunk_id + 1
             /\ r.next_chunk_order = next_chunk_order + 1
       /\ opens_only =>
             /\ Len(chunks) = next_chunk_id
             /\ Len(chunks) = next_chunk_order
             /\ \A i \in 1 .. Len(chunks) :
                   /\ chunks[i].key = i - 1
                   /\ chunks[i].value.addr.chunk_id = i - 1
                   /\ chunks[i].value.order = i - 1

\* Two create_open_chunk calls in a row on a fresh partition.
C16_Witness ==
    /\ opens_only
    /\ last.op = "create_open_chunk"
    /\ last.outcome = "ok"
    /\ unwrap(last.ret).chunk_id = 1
    /\ Len(chunks) = 2
    /\ chunks[2].value.order = 1

\* C17: the counters never wrap around: create_open_chunk and
\* create_rub_chunk panic when the counter they draw from is at the largest
\* value, insert_object_store_only_chunk panics when the id or the order it
\* is given is the largest value, and no call, panicking or not, leaves a
\* counter below the value it had.
C17_CountersNeverWrap ==
    LET kept(r) == /\ r.next_chunk_id \in U32
                   /\ r.next_chunk_order \in U32
                   /\ r.next_chunk_id >= next_chunk_id
                   /\ r.next_chunk_order >= next_chunk_order
    IN /\ next_chunk_id \in U32
       /\ next_chunk_order \in U32
       /\ (next_chunk_id = U32_MAX \/ next_chunk_order = U32_MAX) =>
             create_open_chunk(table_name).outcome = "panic"
       /\ next_chunk_id = U32_MAX =>
             \A o \in U32 : create_rub_chunk(o).outcome = "panic"
       /\ \A i \in U32, o \in U32 :
             (i = U32_MAX \/ o = U32_MAX) =>
                insert_object_store_only_chunk(i, table_name, o).outcome
                   = "panic"
       /\ \A t \in TableNames : kept(create_open_chunk(t))
       /\ \A o \in U32 : kept(create_rub_chunk(o))
       /\ \A i \in U32, t \in TableNames, o \in U32 :
             kept(insert_object_store_only_chunk(i, t, o))
       /\ \A i \in U32 : kept(drop_chunk(i)) /\ kept(force_drop_chunk(i))

\* create_open_chunk panicked on the order counter, which is at the largest
\* value.
C17_Witness ==
    /\ last.op = "create_open_chunk"
    /\ last.outcome = "panic"
    /\ next_chunk_order = U32_MAX
    /\ next_chunk_id > 0

\* C18: every entry (k, chunk) of the mapping has k as the chunk id of the
\* chunk's own address, an address that names this partition, k below
\* next_chunk_id and the chunk's order below next_chunk_order.
C18_EntriesAreConsistent ==
    \A i \in 1 .. Len(chunks) :
       LET k == chunks[i].key
           chunk == chunks[i].value
       IN /\ chunk.addr.chunk_id = k
          /\ chunk.addr.db_name = addr.db_name
          /\ chunk.addr.table_name = addr.table_name
          /\ chunk.addr.partition_key = addr.partition_key
          /\ k < next_chunk_id
          /\ chunk.order < next_chunk_order

\* Two chunks whose orders run against their ids: one restored with an
\* order of its own, one made by create_rub_chunk with a lower order.
C18_Witness ==
    /\ Len(chunks) = 2
    /\ chunks[1].value.stage = "ObjectStoreOnly"
    /\ chunks[2].value.stage = "Frozen"
    /\ chunks[1].value.order > chunks[2].value.order

\* C19: with a lifecycle worker that takes lifecycle actions under the
\* chunk's own lock while drop_chunk runs, drop_chunk never removes a chunk
\* that holds a Persisting or Compacting action at the moment of removal.
C19_DropNeverRemovesBusyChunk ==
    (last.op = "drop_chunk" /\ last.removed # None) =>
       unwrap(last.removed).action \notin {{"Persisting"}, {"Compacting"}}

\* C20: drop_chunk, whether it succeeds or fails, force_drop_chunk and
\* set_persistence_windows leave next_chunk_id and next_chunk_order as they
\* were; create_rub_chunk leaves next_chunk_order as it was; and every
\* create, insert and drop operation leaves every other chunk of the
\* mapping in place with its id and its order.
C20_FrameOfCountersAndChunks ==
    /\ [](
          /\ \A i \in U32 :
                \A r \in {drop_chunk(i), force_drop_chunk(i)} :
                   /\ r.next_chunk_id = next_chunk_id
                   /\ r.next_chunk_order = next_chunk_order
          /\ \A w \in {PersistenceWindows_new,
                        [s \in Sequencers |->
                            Some(OptionalMinMaxSequence_new(None, s))]} :
                \A r \in {set_persistence_windows(w)} :
                   /\ r.next_chunk_id = next_chunk_id
                   /\ r.next_chunk_order = next_chunk_order
                   /\ r.chunks = chunks
          /\ \A o \in U32 :
                create_rub_chunk(o).next_chunk_order = next_chunk_order
         )
    /\ [][/\ (\/ next_chunk_id' # next_chunk_id
               \/ next_chunk_order' # next_chunk_order) =>
                 last'.op \in {"create_open_chunk", "create_rub_chunk",
                               "insert_object_store_only_chunk"}
          /\ next_chunk_order' # next_chunk_order =>
                last'.op # "create_rub_chunk"
          /\ \/ chunks' = chunks
             \/ \E id \in U32 :
                   /\ SelectSeq(chunks', LAMBDA e : e.key # id)
                         = SelectSeq(chunks, LAMBDA e : e.key # id)
                   /\ \A i \in 1 .. Len(chunks), j \in 1 .. Len(chunks') :
                         (/\ chunks[i].key = chunks'[j].key
                          /\ chunks[i].key # id) =>
                            /\ chunks'[j].value.addr.chunk_id
                                  = chunks[i].value.addr.chunk_id
                            /\ chunks'[j].value.order
                                  = chunks[i].value.order
         ]_vars

\* drop_chunk removed the chunk with the lowest id and a chunk with a
\* higher id is still there.
C20_Witness ==
    /\ last.op = "drop_chunk"
    /\ last.outcome = "ok"
    /\ last.removed # None
    /\ Len(chunks) >= 1
    /\ unwrap(last.removed).chunk.chunk_id < chunks[1].key
    /\ next_chunk_id > chunks[1].key

====
